---- MODULE Spec2Model ----
(***************************************************************************)
(* generate_rxn_image.py: a linear script that joins two lists of SMARTS   *)
(* fragment patterns into a reaction descriptor, parses it with            *)
(* ReactionFromSmarts, draws it with MolDraw2DCairo and writes the drawing  *)
(* text to reaction.png.                                                    *)
(*                                                                         *)
(* One action per statement of the script.  Line 22 is split in the order  *)
(* Python evaluates it: GetDrawingText(), then write_bytes' open, write    *)
(* and close.  The process is run up to MaxRuns times over one file system.*)
(*                                                                         *)
(* The parser and the drawing engine belong to RDKit, not to the script.   *)
(* The parser is abstracted to a bracket-balance check, the drawing text   *)
(* to the format signature of the drawer class followed by a digest of     *)
(* what the rendering depends on (reaction, options, canvas, version).     *)
(***************************************************************************)
EXTENDS Integers, Sequences, FiniteSets, TLC

VARIABLES
    script,                        \* the list literals of lines 5-11
    reactants_smarts,              \* module globals of the script
    products_smarts,
    thiol_maleimide_click_smarts,
    rxn,
    d2d,
    dopts,
    png,                           \* the value of d2d.GetDrawingText() on line 22
    pc,                            \* the statement to execute next
    fs,                            \* file name -> absent or bytes
    handles,                       \* open handles the process holds on the output
    argv,                          \* command line of this run
    environ,                       \* environment variables of this run
    libVersion,                    \* RDKit version of this run
    run,                           \* number of this run
    steps,                         \* history: statements executed in this run
    calls,                         \* history: library and file calls of this run
    raised,                        \* history: statements that raised in this run
    fsAtStart,                     \* history: fs when this run started
    prevOk                         \* history: outcome of the previous run if it succeeded

procVars == <<reactants_smarts, products_smarts, thiol_maleimide_click_smarts,
              rxn, d2d, dopts, png>>
envVars == <<script, argv, environ, libVersion, run, fsAtStart, prevOk>>
vars == <<script, reactants_smarts, products_smarts, thiol_maleimide_click_smarts,
          rxn, d2d, dopts, png, pc, fs, handles, argv, environ, libVersion, run,
          steps, calls, raised, fsAtStart, prevOk>>

\* ---------------------------------------------------------------- bounds
MaxRuns == 2
NumLibVersions == 2

\* ------------------------------------------------------- optional values
Unbound == <<>>
Bound(v) == <<v>>
Val(x) == x[1]

IsPrefix(s, t) == Len(s) <= Len(t) /\ SubSeq(t, 1, Len(s)) = s

\* ------------------------------------------------------ script constants
ScriptReactants == <<"[*]-[S]-[H]", "[*]-[N]1-[C](=[O])-[CH]=[CH]-[C](=[O])-1">>
ScriptProducts == <<"[*]-[N]1-[C](=[O])-[CH2]-[CH](-[S]-[*])-[C](=[O])-1">>
ScriptLiterals == [reactants |-> ScriptReactants, products |-> ScriptProducts]

\* Edited scripts: one pattern replaced by a malformed or another pattern.
SuppliedLiterals ==
    { ScriptLiterals,
      [reactants |-> <<"[*]-[S]-[H", "[*]-[N]1-[C](=[O])-[CH]=[CH]-[C](=[O])-1">>,
       products |-> ScriptProducts],
      [reactants |-> ScriptReactants,
       products |-> <<"[*]-[N]1-[C](=[O]-[CH2]-[CH](-[S]-[*])-[C](=[O])-1">>],
      [reactants |-> <<"[*]-[S]-[H]", "[*]-[O]-[H]">>,
       products |-> <<"[*]-[S]-[O]-[*]">>] }

CanvasWidth == -1
CanvasHeight == 150

DrawerClassSVG == "MolDraw2DSVG"
DrawerClass == "MolDraw2DCairo"

OutputPathFromArgv == IF argv # <<>> THEN argv[1] ELSE "reaction.png"
OutputPath == "reaction.png"

\* ------------------------------------------------------------ environment
FileNames == {"reaction.png", "out.png"}
Argvs == {<<>>, <<"out.png">>}
Environs == {<<>>, <<"RXN_OUTPUT=out.png">>}
LibVersions == 1..NumLibVersions
PriorContents == {Unbound, Bound(<<>>), Bound(<<66, 77, 10>>)}

\* ------------------------------------------------------------ str.join
RECURSIVE JoinNoSep(_, _)
JoinNoSep(sep, list) ==
    IF list = <<>> THEN "" ELSE list[1] \o JoinNoSep(sep, Tail(list))

RECURSIVE Join(_, _)
Join(sep, list) ==
    IF list = <<>> THEN ""
    ELSE IF Len(list) = 1 THEN list[1]
    ELSE list[1] \o sep \o Join(sep, Tail(list))

BuildDescriptor(reactants, products) ==
    Join(".", reactants) \o ">>" \o Join(".", products)

\* ------------------------------------------------- ReactionFromSmarts
Char(s, i) == SubSeq(s, i, i)
Count(s, c, upto) == Cardinality({j \in 1..upto : Char(s, j) = c})

\* every closing bracket closes an open one, and none stays open
Balanced(s, open, close) ==
    /\ \A i \in 1..Len(s) : Count(s, close, i) <= Count(s, open, i)
    /\ Count(s, close, Len(s)) = Count(s, open, Len(s))

ParserAccepts(s) == Len(s) > 0 /\ Balanced(s, "[", "]") /\ Balanced(s, "(", ")")

\* ------------------------------------------------------ MolDraw2D
NewDrawer(class, width, height) ==
    [class |-> class, width |-> width, height |-> height,
     opts |-> [dummiesAreAttachments |-> FALSE, padding |-> 5],
     drawn |-> Unbound]

FormatSignature(class) ==
    IF class = "MolDraw2DCairo" THEN <<137, 80, 78, 71, 13, 10, 26, 10>>
    ELSE <<60, 63, 120, 109, 108>>

Digest(d, version) ==
    IF d.drawn = Unbound THEN <<>>
    ELSE << Len(Val(d.drawn).smarts) % 256,
            IF Val(d.drawn).dummiesAreAttachments THEN 1 ELSE 0,
            Val(d.drawn).padding,
            d.height % 256,
            version >>

GetDrawingText(d, version) == FormatSignature(d.class) \o Digest(d, version)

\* ------------------------------------------------------ Path.write_bytes
OpenAppend(f, name) ==
    [f EXCEPT ![name] = IF @ = Unbound THEN Bound(<<>>) ELSE @]
OpenTruncate(f, name) == [f EXCEPT ![name] = Bound(<<>>)]

RECURSIVE TranslateNewlines(_)
TranslateNewlines(data) ==
    IF data = <<>> THEN <<>>
    ELSE (IF Head(data) = 10 THEN <<13, 10>> ELSE <<Head(data)>>)
         \o TranslateNewlines(Tail(data))

FileAfterTextWrite(content, data) == content \o TranslateNewlines(data)
FileAfterWrite(content, data) == content \o data

ReleaseOnSuccessOnly(h, ok) == IF ok THEN h - 1 ELSE h
ReleaseHandle(h, ok) == h - 1

\* ------------------------------------------------------ control flow
SuccessorDrawBeforePadding(line) ==
    CASE line = "l01" -> "l05"
      [] line = "l05" -> "l09"
      [] line = "l09" -> "l12"
      [] line = "l12" -> "l16"
      [] line = "l16" -> "l17"
      [] line = "l17" -> "l18"
      [] line = "l18" -> "l19"
      [] line = "l19" -> "l21"
      [] line = "l21" -> "l20"
      [] line = "l20" -> "l22_text"
      [] line = "l22_text" -> "l22_open"
      [] line = "l22_open" -> "l22_write"
      [] line = "l22_write" -> "l22_close"
      [] OTHER -> "exit"

SuccessorOpenBeforeDraw(line) ==
    CASE line = "l01" -> "l05"
      [] line = "l05" -> "l09"
      [] line = "l09" -> "l12"
      [] line = "l12" -> "l16"
      [] line = "l16" -> "l17"
      [] line = "l17" -> "l18"
      [] line = "l18" -> "l19"
      [] line = "l19" -> "l20"
      [] line = "l20" -> "l22_open"
      [] line = "l22_open" -> "l21"
      [] line = "l21" -> "l22_text"
      [] line = "l22_text" -> "l22_write"
      [] line = "l22_write" -> "l22_close"
      [] OTHER -> "exit"

Successor(line) ==
    CASE line = "l01" -> "l05"
      [] line = "l05" -> "l09"
      [] line = "l09" -> "l12"
      [] line = "l12" -> "l16"
      [] line = "l16" -> "l17"
      [] line = "l17" -> "l18"
      [] line = "l18" -> "l19"
      [] line = "l19" -> "l20"
      [] line = "l20" -> "l21"
      [] line = "l21" -> "l22_text"
      [] line = "l22_text" -> "l22_open"
      [] line = "l22_open" -> "l22_write"
      [] line = "l22_write" -> "l22_close"
      [] OTHER -> "exit"

\* No statement is inside a try block: an exception ends the script.
RetryAfterFailure(line) == line
ContinueAfterFailure(line) == Successor(line)
AfterFailure(line) == "exit"

Advance(line) ==
    /\ pc' = Successor(line)
    /\ steps' = Append(steps, line)
    /\ raised' = raised

Raise(line) ==
    /\ pc' = AfterFailure(line)
    /\ steps' = Append(steps, line)
    /\ raised' = Append(raised, line)

Call(fn, text, nums) == [fn |-> fn, text |-> text, nums |-> nums]

\* ------------------------------------------------------------ initial state
InitProcess ==
    /\ reactants_smarts = Unbound
    /\ products_smarts = Unbound
    /\ thiol_maleimide_click_smarts = Unbound
    /\ rxn = Unbound
    /\ d2d = Unbound
    /\ dopts = Unbound
    /\ png = Unbound
    /\ pc = "l01"
    /\ handles = 0
    /\ steps = <<>>
    /\ calls = <<>>
    /\ raised = <<>>

InitEnvironment ==
    /\ fs \in [FileNames -> PriorContents]
    /\ fsAtStart = fs
    /\ argv \in Argvs
    /\ environ \in Environs
    /\ libVersion \in LibVersions
    /\ run = 1
    /\ prevOk = Unbound

Init == script = ScriptLiterals /\ InitProcess /\ InitEnvironment

InitSupplied == script \in SuppliedLiterals /\ InitProcess /\ InitEnvironment

\* ------------------------------------------------------------ statements
\* lines 1-3
Import ==
    /\ pc = "l01"
    /\ \E ok \in BOOLEAN :
          IF ok THEN Advance("l01") ELSE Raise("l01")
    /\ UNCHANGED <<procVars, envVars, fs, handles, calls>>

\* lines 5-8
AssignReactants ==
    /\ pc = "l05"
    /\ reactants_smarts' = Bound(script.reactants)
    /\ Advance("l05")
    /\ UNCHANGED <<products_smarts, thiol_maleimide_click_smarts, rxn, d2d, dopts,
                   png, envVars, fs, handles, calls>>

\* lines 9-11
AssignProducts ==
    /\ pc = "l09"
    /\ products_smarts' = Bound(script.products)
    /\ Advance("l09")
    /\ UNCHANGED <<reactants_smarts, thiol_maleimide_click_smarts, rxn, d2d, dopts,
                   png, envVars, fs, handles, calls>>

\* lines 12-14
JoinSmarts ==
    /\ pc = "l12"
    /\ IF reactants_smarts # Unbound /\ products_smarts # Unbound
       THEN /\ thiol_maleimide_click_smarts' =
                   Bound(BuildDescriptor(Val(reactants_smarts), Val(products_smarts)))
            /\ Advance("l12")
       ELSE /\ UNCHANGED thiol_maleimide_click_smarts
            /\ Raise("l12")
    /\ UNCHANGED <<reactants_smarts, products_smarts, rxn, d2d, dopts, png,
                   envVars, fs, handles, calls>>

\* line 16
Parse ==
    /\ pc = "l16"
    /\ IF thiol_maleimide_click_smarts = Unbound
       THEN /\ Raise("l16")
            /\ UNCHANGED <<rxn, calls>>
       ELSE /\ calls' = Append(calls, Call("ReactionFromSmarts",
                                           Val(thiol_maleimide_click_smarts), <<>>))
            /\ IF ParserAccepts(Val(thiol_maleimide_click_smarts))
               THEN /\ rxn' = Bound([smarts |-> Val(thiol_maleimide_click_smarts)])
                    /\ Advance("l16")
               ELSE /\ UNCHANGED rxn
                    /\ Raise("l16")
    /\ UNCHANGED <<reactants_smarts, products_smarts, thiol_maleimide_click_smarts,
                   d2d, dopts, png, envVars, fs, handles>>

\* line 17
NewMolDraw2D ==
    /\ pc = "l17"
    /\ calls' = Append(calls, Call(DrawerClass, "", <<CanvasWidth, CanvasHeight>>))
    /\ \E ok \in BOOLEAN :
          IF ok
          THEN /\ d2d' = Bound(NewDrawer(DrawerClass, CanvasWidth, CanvasHeight))
               /\ Advance("l17")
          ELSE /\ UNCHANGED d2d
               /\ Raise("l17")
    /\ UNCHANGED <<reactants_smarts, products_smarts, thiol_maleimide_click_smarts,
                   rxn, dopts, png, envVars, fs, handles>>

\* line 18
DrawOptions ==
    /\ pc = "l18"
    /\ IF d2d # Unbound
       THEN /\ dopts' = Bound("d2d.options")
            /\ calls' = Append(calls, Call("drawOptions", "", <<>>))
            /\ Advance("l18")
       ELSE /\ UNCHANGED <<dopts, calls>>
            /\ Raise("l18")
    /\ UNCHANGED <<reactants_smarts, products_smarts, thiol_maleimide_click_smarts,
                   rxn, d2d, png, envVars, fs, handles>>

\* line 19
SetDummiesAreAttachments ==
    /\ pc = "l19"
    /\ IF dopts # Unbound /\ d2d # Unbound
       THEN /\ d2d' = Bound([Val(d2d) EXCEPT !.opts.dummiesAreAttachments = TRUE])
            /\ calls' = Append(calls, Call("dummiesAreAttachments", "True", <<>>))
            /\ Advance("l19")
       ELSE /\ UNCHANGED <<d2d, calls>>
            /\ Raise("l19")
    /\ UNCHANGED <<reactants_smarts, products_smarts, thiol_maleimide_click_smarts,
                   rxn, dopts, png, envVars, fs, handles>>

\* line 20
SetPadding ==
    /\ pc = "l20"
    /\ IF dopts # Unbound /\ d2d # Unbound
       THEN /\ d2d' = Bound([Val(d2d) EXCEPT !.opts.padding = 0])
            /\ calls' = Append(calls, Call("padding", "", <<0>>))
            /\ Advance("l20")
       ELSE /\ UNCHANGED <<d2d, calls>>
            /\ Raise("l20")
    /\ UNCHANGED <<reactants_smarts, products_smarts, thiol_maleimide_click_smarts,
                   rxn, dopts, png, envVars, fs, handles>>

\* line 21
DrawReaction ==
    /\ pc = "l21"
    /\ \E ok \in BOOLEAN :
          IF ok /\ d2d # Unbound /\ rxn # Unbound
          THEN /\ d2d' = Bound([Val(d2d) EXCEPT !.drawn =
                     Bound([smarts |-> Val(rxn).smarts,
                            dummiesAreAttachments |-> Val(d2d).opts.dummiesAreAttachments,
                            padding |-> Val(d2d).opts.padding])])
               /\ calls' = Append(calls, Call("DrawReaction", Val(rxn).smarts, <<>>))
               /\ Advance("l21")
          ELSE /\ UNCHANGED <<d2d, calls>>
               /\ Raise("l21")
    /\ UNCHANGED <<reactants_smarts, products_smarts, thiol_maleimide_click_smarts,
                   rxn, dopts, png, envVars, fs, handles>>

\* line 22, the argument
DrawingText ==
    /\ pc = "l22_text"
    /\ \E ok \in BOOLEAN :
          IF ok /\ d2d # Unbound
          THEN /\ png' = Bound(GetDrawingText(Val(d2d), libVersion))
               /\ calls' = Append(calls, Call("GetDrawingText", "", <<>>))
               /\ Advance("l22_text")
          ELSE /\ UNCHANGED <<png, calls>>
               /\ Raise("l22_text")
    /\ UNCHANGED <<reactants_smarts, products_smarts, thiol_maleimide_click_smarts,
                   rxn, d2d, dopts, envVars, fs, handles>>

\* line 22, write_bytes: open(mode='wb')
OpenOutput ==
    /\ pc = "l22_open"
    /\ calls' = Append(calls, Call("open", OutputPath, <<>>))
    /\ \E ok \in BOOLEAN :
          IF ok
          THEN /\ fs' = OpenTruncate(fs, OutputPath)
               /\ handles' = handles + 1
               /\ Advance("l22_open")
          ELSE /\ UNCHANGED <<fs, handles>>
               /\ Raise("l22_open")
    /\ UNCHANGED <<procVars, envVars>>

\* line 22, write_bytes: f.write(view); a short write raises and leaves a prefix
WriteOutput ==
    /\ pc = "l22_write"
    /\ IF png # Unbound /\ handles > 0
       THEN \E n \in 0..Len(Val(png)) :
               IF n = Len(Val(png))
               THEN /\ fs' = [fs EXCEPT ![OutputPath] =
                                 Bound(FileAfterWrite(Val(@), Val(png)))]
                    /\ UNCHANGED handles
                    /\ Advance("l22_write")
               ELSE /\ fs' = [fs EXCEPT ![OutputPath] =
                                 Bound(Val(@) \o SubSeq(Val(png), 1, n))]
                    /\ handles' = ReleaseHandle(handles, FALSE)
                    /\ Raise("l22_write")
       ELSE /\ UNCHANGED <<fs, handles>>
            /\ Raise("l22_write")
    /\ UNCHANGED <<procVars, envVars, calls>>

\* line 22, write_bytes: leaving the with block
CloseOutput ==
    /\ pc = "l22_close"
    /\ handles' = ReleaseHandle(handles, TRUE)
    /\ Advance("l22_close")
    /\ UNCHANGED <<procVars, envVars, fs, calls>>

\* the script is started again
StartRun ==
    /\ pc = "exit"
    /\ run < MaxRuns
    /\ run' = run + 1
    /\ prevOk' = IF raised = <<>>
                 THEN Bound([content |-> fs[OutputPath], version |-> libVersion])
                 ELSE Unbound
    /\ fsAtStart' = fs
    /\ argv' \in Argvs
    /\ environ' \in Environs
    /\ libVersion' \in LibVersions
    /\ reactants_smarts' = Unbound
    /\ products_smarts' = Unbound
    /\ thiol_maleimide_click_smarts' = Unbound
    /\ rxn' = Unbound
    /\ d2d' = Unbound
    /\ dopts' = Unbound
    /\ png' = Unbound
    /\ pc' = "l01"
    /\ handles' = 0
    /\ steps' = <<>>
    /\ calls' = <<>>
    /\ raised' = <<>>
    /\ UNCHANGED <<script, fs>>

Next ==
    \/ Import
    \/ AssignReactants
    \/ AssignProducts
    \/ JoinSmarts
    \/ Parse
    \/ NewMolDraw2D
    \/ DrawOptions
    \/ SetDummiesAreAttachments
    \/ SetPadding
    \/ DrawReaction
    \/ DrawingText
    \/ OpenOutput
    \/ WriteOutput
    \/ CloseOutput
    \/ StartRun

Spec == Init /\ [][Next]_vars

SpecSupplied == InitSupplied /\ [][Next]_vars

Succeeded == pc = "exit" /\ raised = <<>>
Failed == pc = "exit" /\ raised # <<>>

\* ================================================================ claims
InSeq(x, s) == \E i \in 1..Len(s) : s[i] = x
Occurrences(x, s) == Cardinality({i \in 1..Len(s) : s[i] = x})

ExpectedDescriptor ==
    "[*]-[S]-[H].[*]-[N]1-[C](=[O])-[CH]=[CH]-[C](=[O])-1>>[*]-[N]1-[C](=[O])-[CH2]-[CH](-[S]-[*])-[C](=[O])-1"

PNGSignature == <<137, 80, 78, 71, 13, 10, 26, 10>>

StatementOrder ==
    <<"l01", "l05", "l09", "l12", "l16", "l17", "l18", "l19", "l20", "l21",
      "l22_text", "l22_open", "l22_write", "l22_close">>

ExpectedCalls ==
    << Call("ReactionFromSmarts", ExpectedDescriptor, <<>>),
       Call("MolDraw2DCairo", "", <<-1, 150>>),
       Call("drawOptions", "", <<>>),
       Call("dummiesAreAttachments", "True", <<>>),
       Call("padding", "", <<0>>),
       Call("DrawReaction", ExpectedDescriptor, <<>>),
       Call("GetDrawingText", "", <<>>),
       Call("open", "reaction.png", <<>>) >>

ParseOrRenderLines == {"l16", "l17", "l21", "l22_text"}

\* C1: the descriptor the script builds (reactants joined with ".", then ">>",
\* then products joined with ".") is exactly the literal string of the spec, and
\* that string is the argument of every ReactionFromSmarts call.
C1_DescriptorIsLiteral ==
    /\ thiol_maleimide_click_smarts # Unbound
          => Val(thiol_maleimide_click_smarts) = ExpectedDescriptor
    /\ \A i \in 1..Len(calls) :
          calls[i].fn = "ReactionFromSmarts" => calls[i].text = ExpectedDescriptor
    /\ rxn # Unbound => Val(rxn).smarts = ExpectedDescriptor

C1_Witness ==
    /\ rxn # Unbound
    /\ Len(calls) >= 1
    /\ calls[1].fn = "ReactionFromSmarts"

\* C2: with a pattern the parser rejects, the run fails at the parse statement:
\* the statement after it is reached only with an accepted descriptor, and in a
\* run whose parse raised the output is never opened or written, no handle is
\* held and the file system is as it was when the run started.
C2_ParseFailureWritesNothing ==
    /\ pc = "l17" => ParserAccepts(Val(thiol_maleimide_click_smarts))
    /\ InSeq("l16", raised) =>
          /\ ~InSeq("l22_open", steps)
          /\ ~InSeq("l22_write", steps)
          /\ handles = 0
          /\ fs = fsAtStart

C2_Witness ==
    /\ pc = "exit"
    /\ raised = <<"l16">>
    /\ script.reactants[1] = "[*]-[S]-[H"
    /\ fs["reaction.png"] = Unbound

\* C3: after every run that completes, reaction.png exists, is not empty and
\* starts with the PNG signature 89 50 4E 47 0D 0A 1A 0A.
C3_CompletedRunLeavesPng ==
    Succeeded =>
        /\ fs["reaction.png"] # Unbound
        /\ Len(Val(fs["reaction.png"])) > 0
        /\ Len(Val(fs["reaction.png"])) >= Len(PNGSignature)
        /\ SubSeq(Val(fs["reaction.png"]), 1, Len(PNGSignature)) = PNGSignature

C3_Witness ==
    /\ Succeeded
    /\ fsAtStart["reaction.png"] = Unbound

\* C4: when a successful run follows a successful run with the same library
\* version, reaction.png holds after it what it held after the earlier run.
C4_RerunIdempotent ==
    (Succeeded /\ prevOk # Unbound /\ Val(prevOk).version = libVersion)
        => fs["reaction.png"] = Val(prevOk).content

C4_Witness ==
    /\ Succeeded
    /\ run >= 2
    /\ prevOk # Unbound
    /\ Val(prevOk).version = libVersion
    /\ fs["reaction.png"] # Unbound

\* C5: whatever reaction.png held before the run, once the write statement has
\* completed it holds exactly the bytes GetDrawingText returned in this run, and
\* no other file ever differs from what it was when the run started.
C5_OverwriteVerbatim ==
    /\ \A n \in FileNames \ {"reaction.png"} : fs[n] = fsAtStart[n]
    /\ (InSeq("l22_write", steps) /\ ~InSeq("l22_write", raised)) =>
          /\ png # Unbound
          /\ fs["reaction.png"] = png

C5_Witness ==
    /\ InSeq("l22_write", steps)
    /\ ~InSeq("l22_write", raised)
    /\ fsAtStart["reaction.png"] = Bound(<<66, 77, 10>>)
    /\ fsAtStart["out.png"] # Unbound

\* C6: whatever the command line, the environment variables and the files that
\* exist, the parser, drawer and open calls of a run are an initial part of one
\* fixed list of calls with fixed arguments (descriptor, canvas -1 x 150,
\* dummiesAreAttachments = True, padding = 0.0, file name reaction.png).
C6_CallsIndependentOfEnvironment ==
    IsPrefix(calls, ExpectedCalls)

C6_Witness ==
    /\ Succeeded
    /\ argv = <<"out.png">>
    /\ environ # <<>>
    /\ fsAtStart["out.png"] # Unbound
    /\ calls = ExpectedCalls

\* C7: the statements of a run execute at most once each, in the order of the
\* script; the drawing was made with both options already set; and the output
\* is opened or written only after DrawReaction has returned.
C7_FixedOrder ==
    /\ IsPrefix(steps, StatementOrder)
    /\ (d2d # Unbound /\ Val(d2d).drawn # Unbound) =>
          /\ Val(Val(d2d).drawn).dummiesAreAttachments = TRUE
          /\ Val(Val(d2d).drawn).padding = 0
    /\ (InSeq("l22_open", steps) \/ InSeq("l22_write", steps)) =>
          /\ InSeq("l21", steps)
          /\ ~InSeq("l21", raised)
          /\ Val(d2d).drawn # Unbound

C7_Witness ==
    /\ Succeeded
    /\ steps = StatementOrder

\* C8: a statement that raises ends the run: the run is at its exit, exactly one
\* statement raised, it is the last statement executed and was executed once,
\* and no file other than reaction.png has been touched.
C8_FailureEndsRun ==
    raised # <<>> =>
        /\ pc = "exit"
        /\ Len(raised) = 1
        /\ steps # <<>>
        /\ steps[Len(steps)] = raised[1]
        /\ Occurrences(raised[1], steps) = 1
        /\ \A n \in FileNames \ {"reaction.png"} : fs[n] = fsAtStart[n]

C8_Witness ==
    /\ Failed
    /\ raised = <<"l22_write">>
    /\ fs["reaction.png"] # fsAtStart["reaction.png"]

C10_FailedRunKeepsFiles ==
    (raised # <<>> /\ raised[1] \in ParseOrRenderLines) => fs = fsAtStart

\* a failed second run with the PNG of the first run still in place
C10_Witness ==
    /\ Failed
    /\ raised[1] \in ParseOrRenderLines
    /\ run >= 2
    /\ fs["reaction.png"] # Unbound
    /\ Len(Val(fs["reaction.png"])) >= Len(PNGSignature)
    /\ SubSeq(Val(fs["reaction.png"]), 1, Len(PNGSignature)) = PNGSignature

====
